---- MODULE Spec2Model ----
(***************************************************************************)
(* Model of src/v1/values.cpp: the algebra of Value::Ranges and Value::Set *)
(* and the Ranges branch of internal::values::parse.                       *)
(*                                                                         *)
(* Every operation of the file is a function of its arguments.  The state  *)
(* records the last call: which operation ran (op), its operands (left,    *)
(* right), what it returned or left in the mutated operand (result) and    *)
(* whether a glog CHECK failed on the way (aborted).                       *)
(***************************************************************************)
EXTENDS Integers, Sequences, FiniteSets

VARIABLES op, left, right, result, aborted

vars == <<op, left, right, result, aborted>>

(***************************************************************************)
(* Bounds.  uint64_t is modelled as 0..MaxU64 with wrap-around arithmetic  *)
(* modulo MaxU64 + 1 (2^64 in the program).                                *)
(***************************************************************************)
MaxU64 == 3
MaxLen == 3
MaxItems == 3
MaxText == 5

\* The longest initializer_list any call site passes to coalesce ({left, right}).
MaxAdded == 2

Modulus == MaxU64 + 1
U64 == 0..MaxU64

\* Value::Range messages, and those with begin <= end.
ValueRange == {[begin |-> b, end |-> e] : b \in U64, e \in U64}
WellFormedRange == {r \in ValueRange : r.begin <= r.end}

Max(a, b) == IF a > b THEN a ELSE b

(***************************************************************************)
(* internal::coalesce                                                      *)
(***************************************************************************)
\* The comparator handed to std::sort: std::tie(start, end) <.
RangeLess(l, r) == l.start < r.start \/ (l.start = r.start /\ l.end < r.end)

RECURSIVE InsertSorted(_, _)
InsertSorted(x, s) ==
  IF s = <<>> THEN <<x>>
  ELSE IF RangeLess(x, Head(s)) THEN <<x>> \o s
  ELSE <<Head(s)>> \o InsertSorted(x, Tail(s))

\* std::sort: elements that compare equivalent are identical, so the sorted
\* vector is unique.
RECURSIVE SortRanges(_)
SortRanges(s) == IF s = <<>> THEN <<>> ELSE InsertSorted(Head(s), SortRanges(Tail(s)))

\* `range.start <= current.end + 1`, the addition in uint64_t.
Mergeable(range, current) == range.start <= (current.end + 1) % Modulus

\* The merged end of two overlapping ranges.
MergedEndMut(current, range) == range.end
MergedEnd(current, range) == Max(current.end, range.end)

\* The foreach loop of internal::coalesce over the sorted vector, which it
\* overwrites in place; k is the (1-based) position of the loop.
RECURSIVE Scan(_, _, _, _)
Scan(ranges, k, count, current) ==
  IF k > Len(ranges)
  THEN [ranges |-> ranges, count |-> count, current |-> current]
  ELSE LET range == ranges[k] IN
    IF range.start = current.start /\ range.end = current.end
    THEN Scan(ranges, k + 1, count, current)
    ELSE IF range.start = current.start /\ range.end > current.end
    THEN Scan(ranges, k + 1, count, [current EXCEPT !.end = range.end])
    ELSE IF range.start > current.start
    THEN IF Mergeable(range, current)
         THEN Scan(ranges, k + 1, count,
                   [current EXCEPT !.end = MergedEnd(current, range)])
         ELSE Scan([ranges EXCEPT ![count] = current], k + 1, count + 1, range)
    ELSE Scan(ranges, k + 1, count, current)

\* The copy loop: result is the protobuf repeated field, i the loop index
\* (0-based as in the code).  ok is FALSE once CHECK(i < range_size()) failed.
RECURSIVE Emit(_, _, _, _)
Emit(buffer, ranges, i, count) ==
  IF i >= count THEN [range |-> buffer, ok |-> TRUE]
  ELSE LET grown == IF i >= Len(buffer)
                    THEN Append(buffer, [begin |-> 0, end |-> 0])
                    ELSE buffer
       IN IF ~(i < Len(grown)) THEN [range |-> grown, ok |-> FALSE]
          ELSE Emit([grown EXCEPT ![i + 1] = [begin |-> ranges[i + 1].start,
                                             end |-> ranges[i + 1].end]],
                    ranges, i + 1, count)

\* internal::coalesce(Value::Ranges* result, vector<Range> ranges).
\* Returns the new contents of *result and whether every CHECK passed.
InternalCoalesce(buffer, unsorted) ==
  IF unsorted = <<>> THEN [range |-> <<>>, ok |-> TRUE]
  ELSE LET sorted == SortRanges(unsorted)
           scan == Scan(sorted, 1, 1, sorted[1])
           count == scan.count
           ranges == [scan.ranges EXCEPT ![count] = scan.current]
       IN IF ~(count <= Len(ranges)) THEN [range |-> buffer, ok |-> FALSE]
          ELSE LET shrunk == IF count < Len(buffer)
                             THEN SubSeq(buffer, 1, count)
                             ELSE buffer
                   emitted == Emit(shrunk, ranges, 0, count)
               IN [range |-> emitted.range,
                   ok |-> emitted.ok /\ Len(emitted.range) = count]

\* The `fill` lambda: copies a Value::Ranges into internal::Range structs.
Fill(inputs) == [i \in 1..Len(inputs) |->
                   [start |-> inputs[i].begin, end |-> inputs[i].end]]

RECURSIVE FillAll(_)
FillAll(addedRanges) ==
  IF addedRanges = <<>> THEN <<>>
  ELSE Fill(Head(addedRanges)) \o FillAll(Tail(addedRanges))

\* coalesce(Value::Ranges* result, std::initializer_list<Value::Ranges>).
Coalesce(buffer, addedRanges) ==
  InternalCoalesce(buffer, Fill(buffer) \o FillAll(addedRanges))

\* coalesce(Value::Ranges* result).
CoalesceSelf(buffer) == Coalesce(buffer, << <<>> >>)

(***************************************************************************)
(* remove, and the operators on Value::Ranges                              *)
(***************************************************************************)
\* `range.begin() >= removal.begin() && range.end() <= removal.end()`.
SubsumedMut(range, removal) ==
  range.begin > removal.begin /\ range.end <= removal.end
Subsumed(range, removal) ==
  range.begin >= removal.begin /\ range.end <= removal.end

\* What one iteration of the foreach loop of remove appends to the vector for
\* one stored range, and whether CHECK(range.begin() < removal.begin()) held.
RemoveFrom(range, removal) ==
  IF Subsumed(range, removal) THEN [ranges |-> <<>>, ok |-> TRUE]
  ELSE
    LET divided ==
          IF range.begin < removal.begin /\ range.end > removal.end
          THEN << [start |-> range.begin,
                   end |-> (removal.begin - 1) % Modulus],
                  [start |-> (removal.end + 1) % Modulus,
                   end |-> range.end] >>
          ELSE <<>>
    IN IF range.end < removal.begin \/ range.begin > removal.end
       THEN [ranges |-> Append(divided, [start |-> range.begin,
                                         end |-> range.end]),
             ok |-> TRUE]
       ELSE IF range.end > removal.end
       THEN [ranges |-> Append(divided, [start |-> (removal.end + 1) % Modulus,
                                         end |-> range.end]),
             ok |-> TRUE]
       ELSE [ranges |-> Append(divided,
                               [start |-> range.begin,
                                end |-> (removal.begin - 1) % Modulus]),
             ok |-> range.begin < removal.begin]

\* The foreach loop of remove over the stored ranges.
RECURSIVE RemoveLoop(_, _)
RemoveLoop(stored, removal) ==
  IF stored = <<>> THEN [ranges |-> <<>>, ok |-> TRUE]
  ELSE LET first == RemoveFrom(Head(stored), removal)
           rest == RemoveLoop(Tail(stored), removal)
       IN [ranges |-> first.ranges \o rest.ranges, ok |-> first.ok /\ rest.ok]

\* remove(Value::Ranges* _ranges, const Value::Range& removal).
Remove(stored, removal) ==
  LET built == RemoveLoop(stored, removal)
      coalesced == InternalCoalesce(stored, built.ranges)
  IN IF built.ok THEN coalesced ELSE [range |-> stored, ok |-> FALSE]

\* The loop of operator-= over right.range(i).
RECURSIVE RemoveAll(_, _)
RemoveAll(acc, removals) ==
  IF removals = <<>> \/ ~acc.ok THEN acc
  ELSE RemoveAll(Remove(acc.range, Head(removals)), Tail(removals))

\* operator-=(Value::Ranges& left, const Value::Ranges& right).
RangesMinusAssign(l, r) == RemoveAll(CoalesceSelf(l), r)

\* operator-(const Value::Ranges& left, const Value::Ranges& right).
RangesMinus(l, r) ==
  LET copy == Coalesce(<<>>, <<l>>)
  IN IF copy.ok THEN RangesMinusAssign(copy.range, r) ELSE copy

\* operator+(const Value::Ranges& left, const Value::Ranges& right).
RangesPlus(l, r) == Coalesce(<<>>, <<l, r>>)

\* operator+=(Value::Ranges& left, const Value::Ranges& right).
RangesPlusAssign(l, r) == Coalesce(l, <<r>>)

\* The right-hand side the comparison loops of operator== and operator<= scan.
ComparedRightMut(r) == [range |-> r, ok |-> TRUE]
ComparedRight(r) == Coalesce(<<>>, <<r>>)

\* operator==(const Value::Ranges& _left, const Value::Ranges& _right).
RangesEquals(l, r) ==
  LET cl == Coalesce(<<>>, <<l>>)
      cr == ComparedRight(r)
  IN [ok |-> cl.ok /\ cr.ok,
      value |->
        IF Len(cl.range) = Len(cr.range)
        THEN \A i \in 1..Len(cl.range) : \E j \in 1..Len(cr.range) :
               /\ cl.range[i].begin = cr.range[j].begin
               /\ cl.range[i].end = cr.range[j].end
        ELSE FALSE]

\* operator<=(const Value::Ranges& _left, const Value::Ranges& _right).
RangesSubset(l, r) ==
  LET cl == Coalesce(<<>>, <<l>>)
      cr == ComparedRight(r)
  IN [ok |-> cl.ok /\ cr.ok,
      value |->
        \A i \in 1..Len(cl.range) : \E j \in 1..Len(cr.range) :
          /\ cl.range[i].begin >= cr.range[j].begin
          /\ cl.range[i].end <= cr.range[j].end]

(***************************************************************************)
(* The operators on Value::Set                                             *)
(***************************************************************************)
Items == {"x", "y", "z"}

\* operator==(const Value::Set& left, const Value::Set& right); the inner
\* loop over j compares left.item(i) with right.item(i).
SetEquals(l, r) ==
  IF Len(l) = Len(r)
  THEN \A i \in 1..Len(l) : \E j \in 1..Len(r) : l[i] = r[i]
  ELSE FALSE

\* operator<=(const Value::Set& left, const Value::Set& right).
SetSubset(l, r) ==
  IF Len(l) <= Len(r)
  THEN \A i \in 1..Len(l) : \E j \in 1..Len(r) : l[i] = r[j]
  ELSE FALSE

\* The body of the loop over right of operator+ and operator+=: add the item
\* unless the scan of what was collected so far finds it.
AddUnlessFoundMut(items, item) == Append(items, item)
AddUnlessFound(items, item) ==
  IF \E j \in 1..Len(items) : item = items[j] THEN items ELSE Append(items, item)

RECURSIVE AddAll(_, _)
AddAll(items, r) ==
  IF r = <<>> THEN items ELSE AddAll(AddUnlessFound(items, Head(r)), Tail(r))

\* The first loop of operator+: result.add_item(left.item(i)) for every i.
RECURSIVE CopyItems(_, _)
CopyItems(items, l) ==
  IF l = <<>> THEN items ELSE CopyItems(Append(items, Head(l)), Tail(l))

\* operator+(const Value::Set& left, const Value::Set& right).
SetPlus(l, r) == AddAll(CopyItems(<<>>, l), r)

\* operator+=(Value::Set& left, const Value::Set& right).
SetPlusAssign(l, r) == AddAll(l, r)

(***************************************************************************)
(* internal::values::parse                                                 *)
(***************************************************************************)
\* The characters of the texts: the delimiters of a ranges literal, the
\* space, two digits and a letter.
Chars == {"[", "]", "-", ",", " ", "1", "3", "a"}

RangeDelimiters == {"[", "]", "-", ",", "\n"}

DigitValue(c) ==
  CASE c = "0" -> 0 [] c = "1" -> 1 [] c = "2" -> 2 [] c = "3" -> 3
    [] c = "4" -> 4 [] c = "5" -> 5 [] c = "6" -> 6 [] c = "7" -> 7
    [] c = "8" -> 8 [] c = "9" -> 9 [] OTHER -> -1

\* The loop that drops every ' ' of the text.
RemoveSpaces(text) == SelectSeq(text, LAMBDA c : c # " ")

\* strings::checkBracketsMatching: the count of open brackets never drops
\* below zero and ends at zero.
RECURSIVE BracketsFrom(_, _, _, _)
BracketsFrom(s, open, close, count) ==
  IF s = <<>> THEN count = 0
  ELSE LET c == IF Head(s) = open THEN count + 1
                ELSE IF Head(s) = close THEN count - 1
                ELSE count
       IN IF c < 0 THEN FALSE ELSE BracketsFrom(Tail(s), open, close, c)

CheckBracketsMatching(s, open, close) == BracketsFrom(s, open, close, 0)

\* strings::tokenize: the maximal runs of characters that are no delimiter.
RECURSIVE TokenizeFrom(_, _, _)
TokenizeFrom(s, delims, token) ==
  IF s = <<>> THEN (IF token = <<>> THEN <<>> ELSE <<token>>)
  ELSE IF Head(s) \in delims
  THEN (IF token = <<>> THEN <<>> ELSE <<token>>)
         \o TokenizeFrom(Tail(s), delims, <<>>)
  ELSE TokenizeFrom(Tail(s), delims, Append(token, Head(s)))

Tokenize(s, delims) == TokenizeFrom(s, delims, <<>>)

\* boost::lexical_cast<uint64_t>: the decimal value of the token, or -1 for
\* bad_lexical_cast (a character that is no digit, or a value that does not
\* fit the type).
RECURSIVE LexicalCastFrom(_, _)
LexicalCastFrom(token, acc) ==
  IF token = <<>> THEN acc
  ELSE LET d == DigitValue(Head(token))
       IN IF d < 0 \/ acc * 10 + d > MaxU64 THEN -1
          ELSE LexicalCastFrom(Tail(token), acc * 10 + d)

LexicalCastU64(token) == IF token = <<>> THEN -1 ELSE LexicalCastFrom(token, 0)

\* The loop of parse over the token pairs: ranges->add_range() with the two
\* integers of each pair; ok is FALSE once a lexical_cast threw.
RECURSIVE ParsePairs(_)
ParsePairs(tokens) ==
  IF tokens = <<>> THEN [range |-> <<>>, ok |-> TRUE]
  ELSE LET b == LexicalCastU64(tokens[1])
           e == LexicalCastU64(tokens[2])
           rest == ParsePairs(SubSeq(tokens, 3, Len(tokens)))
       IN IF b < 0 \/ e < 0 THEN [range |-> <<>>, ok |-> FALSE]
          ELSE [range |-> <<[begin |-> b, end |-> e]>> \o rest.range,
                ok |-> rest.ok]

FirstIndex(s, c) ==
  IF \E i \in 1..Len(s) : s[i] = c
  THEN CHOOSE i \in 1..Len(s) : s[i] = c /\ \A j \in 1..(i - 1) : s[j] # c
  ELSE 0

\* parse(const string& text).  type is "RANGES" with the ranges parse
\* returns, "ERROR" for every Error(...), or "OTHER" for the set, scalar and
\* text branches, which never start with '['.
Parse(text) ==
  LET temp == RemoveSpaces(text)
      failure == [type |-> "ERROR", range |-> <<>>, ok |-> TRUE]
  IN IF Len(temp) = 0 THEN failure
     ELSE IF \/ ~CheckBracketsMatching(temp, "{", "}")
             \/ ~CheckBracketsMatching(temp, "[", "]")
             \/ ~CheckBracketsMatching(temp, "(", ")")
     THEN failure
     ELSE IF FirstIndex(temp, "[") = 1
     THEN LET tokens == Tokenize(temp, RangeDelimiters)
          IN IF Len(tokens) % 2 # 0 THEN failure
             ELSE LET pairs == ParsePairs(tokens)
                      coalesced == CoalesceSelf(pairs.range)
                  IN IF ~pairs.ok THEN failure
                     ELSE [type |-> "RANGES", range |-> coalesced.range,
                           ok |-> coalesced.ok]
     ELSE IF FirstIndex(temp, "[") = 0
     THEN [type |-> "OTHER", range |-> <<>>, ok |-> TRUE]
     ELSE failure

(***************************************************************************)
(* The calls.  The operands of a call on Value::Ranges hold at most MaxLen  *)
(* well-formed ranges altogether, each operand of a call on Value::Set at  *)
(* most MaxItems items, and a text at most MaxText characters.             *)
(***************************************************************************)
Init ==
  /\ op = "init"
  /\ left = <<>>
  /\ right = <<>>
  /\ result = <<>>
  /\ aborted = FALSE

\* The caller takes the result; the next call starts from scratch.
Return ==
  /\ op # "init"
  /\ op' = "init"
  /\ left' = <<>>
  /\ right' = <<>>
  /\ result' = <<>>
  /\ aborted' = FALSE

\* The ways to cut a list of n ranges into m + 1 consecutive operands.
Cuts(n, m) == {c \in [1..m -> 0..n] : \A i \in 1..(m - 1) : c[i] <= c[i + 1]}

Piece(s, c, i) ==
  SubSeq(s, (IF i = 0 THEN 0 ELSE c[i]) + 1,
            IF i = Len(c) THEN Len(s) ELSE c[i + 1])

\* A call of coalesce(&existing, {added...}); the operands hold at most
\* MaxLen ranges altogether.
CallCoalesce ==
  /\ op = "init"
  /\ \E n \in 0..MaxLen, m \in 0..MaxAdded :
       \E s \in [1..n -> WellFormedRange], c \in Cuts(n, m) :
         LET existing == Piece(s, c, 0)
             added == [i \in 1..m |-> Piece(s, c, i)]
             r == Coalesce(existing, added)
         IN /\ op' = "coalesce"
            /\ left' = existing
            /\ right' = added
            /\ result' = r.range
            /\ aborted' = ~r.ok

\* A call of left == right on Value::Ranges.
CallRangesEquals ==
  /\ op = "init"
  /\ \E n \in 0..MaxLen : \E k \in 0..n : \E s \in [1..n -> WellFormedRange] :
       LET p == <<SubSeq(s, 1, k), SubSeq(s, k + 1, n)>>
           out == RangesEquals(p[1], p[2])
       IN /\ op' = "=="
          /\ left' = p[1]
          /\ right' = p[2]
          /\ result' = out.value
          /\ aborted' = ~out.ok

\* A call of left <= right on Value::Ranges.
CallRangesSubset ==
  /\ op = "init"
  /\ \E n \in 0..MaxLen : \E k \in 0..n : \E s \in [1..n -> WellFormedRange] :
       LET p == <<SubSeq(s, 1, k), SubSeq(s, k + 1, n)>>
           out == RangesSubset(p[1], p[2])
       IN /\ op' = "<="
          /\ left' = p[1]
          /\ right' = p[2]
          /\ result' = out.value
          /\ aborted' = ~out.ok

\* A call of left + right on Value::Ranges.
CallRangesPlus ==
  /\ op = "init"
  /\ \E n \in 0..MaxLen : \E k \in 0..n : \E s \in [1..n -> WellFormedRange] :
       LET p == <<SubSeq(s, 1, k), SubSeq(s, k + 1, n)>>
           out == RangesPlus(p[1], p[2])
       IN /\ op' = "+"
          /\ left' = p[1]
          /\ right' = p[2]
          /\ result' = out.range
          /\ aborted' = ~out.ok

\* A call of left += right on Value::Ranges; result is left afterwards.
CallRangesPlusAssign ==
  /\ op = "init"
  /\ \E n \in 0..MaxLen : \E k \in 0..n : \E s \in [1..n -> WellFormedRange] :
       LET p == <<SubSeq(s, 1, k), SubSeq(s, k + 1, n)>>
           out == RangesPlusAssign(p[1], p[2])
       IN /\ op' = "+="
          /\ left' = p[1]
          /\ right' = p[2]
          /\ result' = out.range
          /\ aborted' = ~out.ok

\* A call of left - right on Value::Ranges.
CallRangesMinus ==
  /\ op = "init"
  /\ \E n \in 0..MaxLen : \E k \in 0..n : \E s \in [1..n -> WellFormedRange] :
       LET p == <<SubSeq(s, 1, k), SubSeq(s, k + 1, n)>>
           out == RangesMinus(p[1], p[2])
       IN /\ op' = "-"
          /\ left' = p[1]
          /\ right' = p[2]
          /\ result' = out.range
          /\ aborted' = ~out.ok

\* A call of left -= right on Value::Ranges; result is left afterwards.
CallRangesMinusAssign ==
  /\ op = "init"
  /\ \E n \in 0..MaxLen : \E k \in 0..n : \E s \in [1..n -> WellFormedRange] :
       LET p == <<SubSeq(s, 1, k), SubSeq(s, k + 1, n)>>
           out == RangesMinusAssign(p[1], p[2])
       IN /\ op' = "-="
          /\ left' = p[1]
          /\ right' = p[2]
          /\ result' = out.range
          /\ aborted' = ~out.ok

\* A call of left == right on Value::Set.
CallSetEquals ==
  /\ op = "init"
  /\ \E n \in 0..MaxItems, m \in 0..MaxItems :
     \E l \in [1..n -> Items], r \in [1..m -> Items] :
       /\ op' = "set=="
       /\ left' = l
       /\ right' = r
       /\ result' = SetEquals(l, r)
       /\ aborted' = FALSE

\* A call of left <= right on Value::Set.
CallSetSubset ==
  /\ op = "init"
  /\ \E n \in 0..MaxItems, m \in 0..MaxItems :
     \E l \in [1..n -> Items], r \in [1..m -> Items] :
       /\ op' = "set<="
       /\ left' = l
       /\ right' = r
       /\ result' = SetSubset(l, r)
       /\ aborted' = FALSE

\* A call of left + right on Value::Set.
CallSetPlus ==
  /\ op = "init"
  /\ \E n \in 0..MaxItems, m \in 0..MaxItems :
     \E l \in [1..n -> Items], r \in [1..m -> Items] :
       /\ op' = "set+"
       /\ left' = l
       /\ right' = r
       /\ result' = SetPlus(l, r)
       /\ aborted' = FALSE

\* A call of left += right on Value::Set; result is left afterwards.
CallSetPlusAssign ==
  /\ op = "init"
  /\ \E n \in 0..MaxItems, m \in 0..MaxItems :
     \E l \in [1..n -> Items], r \in [1..m -> Items] :
       /\ op' = "set+="
       /\ left' = l
       /\ right' = r
       /\ result' = SetPlusAssign(l, r)
       /\ aborted' = FALSE

\* A call of parse(text); result is the type and the ranges of the value.
CallParse ==
  /\ op = "init"
  /\ \E n \in 0..MaxText : \E text \in [1..n -> Chars] :
       LET out == Parse(text)
       IN /\ op' = "parse"
          /\ left' = text
          /\ right' = <<>>
          /\ result' = [type |-> out.type, range |-> out.range]
          /\ aborted' = ~out.ok

NextCoalesce == CallCoalesce \/ Return

SpecCoalesce == Init /\ [][NextCoalesce]_vars

Next ==
  \/ CallCoalesce
  \/ CallRangesEquals
  \/ CallRangesSubset
  \/ CallRangesPlus
  \/ CallRangesPlusAssign
  \/ CallRangesMinus
  \/ CallRangesMinusAssign
  \/ Return

Spec == Init /\ [][Next]_vars

NextSet ==
  \/ CallSetEquals
  \/ CallSetSubset
  \/ CallSetPlus
  \/ CallSetPlusAssign
  \/ Return

SpecSet == Init /\ [][NextSet]_vars

NextParse == CallParse \/ Return

SpecParse == Init /\ [][NextParse]_vars

(***************************************************************************)
(* Properties of the Ranges algebra                                        *)
(***************************************************************************)
\* The integers a Value::Ranges covers.
Cover(rs) == {x \in U64 : \E i \in 1..Len(rs) : rs[i].begin <= x /\ x <= rs[i].end}

CoverAll(list) == UNION {Cover(list[i]) : i \in 1..Len(list)}

\* Sorted strictly ascending by begin, no overlap, no two consecutive
\* elements adjacent.
Canonical(rs) ==
  /\ \A i \in 1..Len(rs) : rs[i].begin <= rs[i].end
  /\ \A i \in 1..Len(rs), j \in 1..Len(rs) :
       i < j => rs[i].begin < rs[j].begin /\ rs[i].end < rs[j].begin
  /\ \A i \in 1..(Len(rs) - 1) : rs[i].end + 1 # rs[i + 1].begin

\* C1: whatever well-formed ranges coalesce is given, in any order, what it
\* leaves in the result is canonical: sorted strictly ascending by begin,
\* without overlaps and without adjacent consecutive elements.
C1_CoalesceCanonical == op = "coalesce" => Canonical(result)

\* C2: the integers covered by the result of coalesce are exactly those
\* covered by the existing value or by one of the added values.
C2_CoveragePreserved ==
  op = "coalesce" => Cover(result) = Cover(left) \cup CoverAll(right)

\* C2 witness: a non-empty existing value and two non-empty added values
\* were merged into a single range.
C2_Witness ==
  /\ op = "coalesce"
  /\ left # <<>>
  /\ Len(right) = 2
  /\ right[1] # <<>>
  /\ right[2] # <<>>
  /\ Len(result) = 1

\* C3: a == b is true exactly when a and b cover the same integers.
C3_EqualsIffSameCover ==
  op = "==" => (result <=> Cover(left) = Cover(right))

\* Every range of a lies within one range of b as b lists them.
WithinOneRawRange(a, b) ==
  \A i \in 1..Len(a) : \E j \in 1..Len(b) :
    a[i].begin >= b[j].begin /\ a[i].end <= b[j].end

\* C4 as stated: a <= b holds only if every range of a lies within a single
\* range of b as listed, so a range of a covered only by two adjacent ranges
\* of b makes a <= b false.
C4_SingleListedRangeContainment ==
  op = "<=" => (result <=> WithinOneRawRange(left, right))

\* C4 as amended: both sides are coalesced before the single-range
\* containment test, so a <= b is true exactly when every integer covered by
\* a is covered by b; adjacent ranges of b count as one.
C4_SubsetOverCoalescedSides ==
  op = "<=" => (result <=> Cover(left) \subseteq Cover(right))

\* C4 witness: a single range of a that lies across two adjacent ranges of b
\* and within neither, and a <= b returned true.
C4_Witness ==
  /\ op = "<="
  /\ Len(left) = 1
  /\ Len(right) = 2
  /\ right[1].end + 1 = right[2].begin
  /\ left[1].begin = right[1].begin
  /\ left[1].end = right[2].end
  /\ ~WithinOneRawRange(left, right)
  /\ result = TRUE

\* C5: a - b and a -= b yield a canonical value covering exactly the
\* integers covered by a and not by b.
C5_DifferenceExact ==
  op \in {"-", "-="} =>
    /\ Canonical(result)
    /\ Cover(result) = Cover(left) \ Cover(right)

\* C10: no CHECK of internal::coalesce or remove fails in any operation on
\* Value::Ranges.
C10_NoCheckFails == ~aborted

\* C10 witness: operator-= ran the trim-back branch of remove (the stored
\* range starts before the removal and ends inside it) without aborting.
C10_Witness ==
  /\ op = "-="
  /\ Len(left) = 1
  /\ Len(right) = 1
  /\ left[1].begin < right[1].begin
  /\ right[1].begin <= left[1].end
  /\ left[1].end <= right[1].end
  /\ result = <<[begin |-> left[1].begin, end |-> right[1].begin - 1]>>
  /\ ~aborted

(***************************************************************************)
(* Properties of parse                                                     *)
(***************************************************************************)
\* C6: when parse returns a Ranges value, that value is canonical; in
\* particular no element has begin > end.
C6_ParsedRangesCanonical ==
  (op = "parse" /\ result.type = "RANGES") => Canonical(result.range)

(***************************************************************************)
(* Properties of the Set algebra                                           *)
(***************************************************************************)
Elements(items) == {items[i] : i \in 1..Len(items)}

NoDuplicates(items) ==
  \A i \in 1..Len(items), j \in 1..Len(items) : items[i] = items[j] => i = j

\* The position of the first occurrence of item in items.
FirstSeen(items, item) ==
  CHOOSE i \in 1..Len(items) :
    items[i] = item /\ \A j \in 1..(i - 1) : items[j] # item

\* C7: a == b on sets is true exactly when both have the same number of
\* entries and every entry of a equals some entry of b, in whatever order.
C7_SetEqualsByValue ==
  op = "set==" =>
    (result <=> (Len(left) = Len(right) /\ Elements(left) \subseteq Elements(right)))

\* C8: a <= b on sets is true exactly when every entry of a equals some entry
\* of b, however often an entry is repeated on either side.
C8_SetSubsetByValue ==
  op = "set<=" => (result <=> Elements(left) \subseteq Elements(right))

\* C9 as stated: the union holds every distinct element of a and b exactly
\* once, in first-seen order over a followed by b.
C9_UnionDistinctFirstSeen ==
  op \in {"set+", "set+="} =>
    /\ NoDuplicates(result)
    /\ Elements(result) = Elements(left) \cup Elements(right)
    /\ \A i \in 1..Len(result), j \in 1..Len(result) :
         i < j => FirstSeen(left \o right, result[i]) < FirstSeen(left \o right, result[j])

\* C9 as amended: the union is a's entries as they are, repeats included,
\* followed by the distinct elements of b that a lacks, each once, in the
\* order b first lists them.
C9_UnionKeepsLeftAddsNew ==
  op \in {"set+", "set+="} =>
    LET added == SubSeq(result, Len(left) + 1, Len(result))
    IN /\ Len(result) >= Len(left)
       /\ SubSeq(result, 1, Len(left)) = left
       /\ NoDuplicates(added)
       /\ Elements(added) = Elements(right) \ Elements(left)
       /\ \A i \in 1..Len(added), j \in 1..Len(added) :
            i < j => FirstSeen(right, added[i]) < FirstSeen(right, added[j])

\* C9 witness: b repeats an element and shares one with a, and the union
\* took a's entries and one copy of the new element.
C9_Witness ==
  /\ op \in {"set+", "set+="}
  /\ ~NoDuplicates(right)
  /\ Elements(left) \cap Elements(right) # {}
  /\ Elements(right) \ Elements(left) # {}
  /\ Len(result) = Len(left) + 1

====
